---------------------------- MODULE Spec2Model ----------------------------
(***************************************************************************)
(* A model of the file_to_pcie kernel module (file_to_pcie.c) and of the   *)
(* userspace caller (test_file_to_pcie.c): the ioctl handler that maps a   *)
(* byte range of an open file to the sector range of its block device and  *)
(* to the NVMe controllers found in the device's ancestry.                 *)
(*                                                                         *)
(* 64-bit C integers (loff_t, size_t, sector_t, pointers) are sequences of *)
(* four 16-bit limbs, least significant first, so that the arithmetic      *)
(* wraps where the machine's does.                                         *)
(***************************************************************************)
EXTENDS Integers, Sequences, FiniteSets, TLC

(***************************************************************************)
(* 64-bit machine words                                                    *)
(***************************************************************************)
Pow2[n \in 0..16] == IF n = 0 THEN 1 ELSE 2 * Pow2[n - 1]

LimbBase == Pow2[16]

\* A non-negative C int constant as a 64-bit word.
U64(n) == <<n % LimbBase, n \div LimbBase, 0, 0>>

U64Zero == <<0, 0, 0, 0>>

\* The sign bit of a word read as a signed 64-bit integer (loff_t).
IsNegative(x) == x[4] >= 32768

\* x + y on words of Len(x) limbs, wrapping as unsigned C addition does.
RECURSIVE AddLimbs(_, _, _, _)
AddLimbs(x, y, i, carry) ==
    IF i > Len(x) THEN <<>>
    ELSE LET s == x[i] + y[i] + carry
         IN  <<s % LimbBase>> \o AddLimbs(x, y, i + 1, s \div LimbBase)

U64Add(x, y) == AddLimbs(x, y, 1, 0)

\* x - y on words of Len(x) limbs, wrapping as unsigned C subtraction does.
RECURSIVE SubLimbs(_, _, _, _)
SubLimbs(x, y, i, borrow) ==
    IF i > Len(x) THEN <<>>
    ELSE LET d == x[i] - y[i] - borrow
         IN  <<(d + LimbBase) % LimbBase>>
                 \o SubLimbs(x, y, i + 1, IF d < 0 THEN 1 ELSE 0)

U64Sub(x, y) == SubLimbs(x, y, 1, 0)

\* Limb i of x, with `fill` read beyond the most significant limb and 0
\* below the least significant one.
LimbAt(x, i, fill) ==
    IF i < 1 THEN 0 ELSE IF i > Len(x) THEN fill ELSE x[i]

\* x >> n with `fill` limbs shifted in from the top (0: logical shift of an
\* unsigned word; 65535: arithmetic shift of a negative signed word).
ShiftRightFill(x, n, fill) ==
    LET q == n \div 16
        r == n % 16
    IN  [i \in 1..Len(x) |->
            ((LimbAt(x, i + q, fill) \div Pow2[r])
               + ((LimbAt(x, i + q + 1, fill) % Pow2[r]) * Pow2[16 - r]))
            % LimbBase]

\* x >> n for an unsigned 64-bit x (sector_t, or the unsigned sum).
U64Shr(x, n) == ShiftRightFill(x, n, 0)

\* x >> n for a signed 64-bit x (loff_t): gcc shifts in the sign bit.
S64Shr(x, n) == ShiftRightFill(x, n, IF IsNegative(x) THEN 65535 ELSE 0)

\* x << n on a 64-bit word; the bits shifted out of the top are lost.
U64Shl(x, n) ==
    LET q == n \div 16
        r == n % 16
    IN  [i \in 1..Len(x) |->
            (((LimbAt(x, i - q, 0) * Pow2[r]) % LimbBase)
               + (LimbAt(x, i - q - 1, 0) \div Pow2[16 - r]))
            % LimbBase]

\* Unsigned comparison x < y, from the most significant limb down.
RECURSIVE LessFrom(_, _, _)
LessFrom(x, y, i) ==
    IF i < 1 THEN FALSE
    ELSE IF x[i] # y[i] THEN x[i] < y[i]
    ELSE LessFrom(x, y, i - 1)

U64Less(x, y) == LessFrom(x, y, Len(x))

\* Signed comparison x <= y of two loff_t values.
S64LessEq(x, y) ==
    IF IsNegative(x) # IsNegative(y) THEN IsNegative(x)
    ELSE ~U64Less(y, x)

\* x + n and x - n for a small non-negative n.
U64AddInt(x, n) == U64Add(x, U64(n))

U64SubInt(x, n) == U64Sub(x, U64(n))

(***************************************************************************)
(* Program constants                                                       *)
(***************************************************************************)
MAX_PCIE_DEVICES == 16

\* Bytes to 512-byte sectors: the shift of calculate_sector_range.
SECTOR_SHIFT == 9

\* errno values; a handler returns them negated.
EBADF == 9

EFAULT == 14

ENODEV == 19

EINVAL == 22

ENOTTY == 25

ENOTSUPP == 524

\* PCI class code 0x010802: mass storage, non-volatile memory, NVM Express.
PCI_CLASS_STORAGE_EXPRESS == 67586

\* pdev->class & 0xffffff00 on a 24-bit class code: the programming
\* interface byte is cleared.
ClassMask(class) == (class \div 256) * 256

\* PCI_SLOT(devfn) = (devfn >> 3) & 0x1f and PCI_FUNC(devfn) = devfn & 7.
PCI_SLOT(devfn) == (devfn \div 8) % 32

PCI_FUNC(devfn) == devfn % 8

\* 0xffff800000000000UL, the lowest address the walk takes for a kernel
\* pointer.
KERNEL_ADDR_MIN == <<0, 0, 32768, 65535>>

\* (unsigned long)p < 0xffff800000000000UL
BelowKernelRange(p) == U64Less(p, KERNEL_ADDR_MIN)

\* A null pointer: as an address, and as the index of no object.
NULL == 0

NULL_ADDR == U64Zero

\* sb->s_type (or its name) is NULL: the superblock names no type.
NO_TYPE == "<null>"

\* _IOC_TYPE and _IOC_NR of FILE_TO_PCIE_IOCTL_GET_PCIE.
FILE_TO_PCIE_IOC_MAGIC == "f"

FILE_TO_PCIE_IOC_NR == 1

(***************************************************************************)
(* Filesystem classification                                               *)
(***************************************************************************)
\* "Known real filesystems that may not have sb->s_bdev set".
KnownRealFilesystems == {"btrfs", "ext4", "ext3", "ext2", "xfs"}

KnownPseudoFilesystems ==
    {"proc", "sysfs", "tmpfs", "devtmpfs", "devpts", "cgroup", "cgroup2",
     "pstore", "debugfs", "tracefs", "securityfs", "configfs", "hugetlbfs",
     "mqueue", "bpf"}

KnownNetworkFilesystems ==
    {"nfs", "nfs4", "cifs", "smb3", "9p", "ceph", "glusterfs", "fuse"}

\* Pseudo by name or by a missing block device, the list of real
\* filesystems forgotten.
is_pseudo_without_real_list(sbs, sb) ==
    IF sb = NULL THEN FALSE
    ELSE IF sbs[sb].s_type # NO_TYPE
            /\ sbs[sb].s_type \in KnownPseudoFilesystems THEN TRUE
    ELSE sbs[sb].s_bdev = NULL

\* Pseudo by name only: a missing block device decides nothing.
is_pseudo_by_name_only(sbs, sb) ==
    IF sb = NULL THEN FALSE
    ELSE sbs[sb].s_type # NO_TYPE
            /\ sbs[sb].s_type \in KnownPseudoFilesystems

\* sb is the index of a superblock (NULL for none) in the table sbs.
is_pseudo_filesystem(sbs, sb) ==
    IF sb = NULL THEN FALSE
    ELSE IF sbs[sb].s_type # NO_TYPE
            /\ sbs[sb].s_type \in KnownRealFilesystems THEN FALSE
    ELSE IF sbs[sb].s_type # NO_TYPE
            /\ sbs[sb].s_type \in KnownPseudoFilesystems THEN TRUE
    ELSE IF sbs[sb].s_bdev = NULL THEN TRUE
    ELSE FALSE

\* No filesystem is taken for a network filesystem.
is_never_network(sbs, sb) == FALSE

is_network_filesystem(sbs, sb) ==
    IF sb = NULL \/ sbs[sb].s_type = NO_TYPE THEN FALSE
    ELSE sbs[sb].s_type \in KnownNetworkFilesystems

S_ISBLK(mode) == mode = "S_IFBLK"

\* Every object that is no device node is taken for a regular file.
IsNotDeviceNode(mode) == mode \notin {"S_IFBLK", "S_IFCHR"}

S_ISREG(mode) == mode = "S_IFREG"

\* The block device of an open file (an index, NULL for none).  inode is
\* the file's inode record: i_mode, i_bdev (what I_BDEV yields), i_sb.
\* A block-special file without a bound device falls back on the block
\* device of the filesystem its node lies on.
get_block_device_with_fallback(sbs, inode) ==
    IF S_ISBLK(inode.i_mode) THEN
        IF inode.i_bdev # NULL THEN inode.i_bdev
        ELSE IF inode.i_sb = NULL THEN NULL
        ELSE sbs[inode.i_sb].s_bdev
    ELSE IF S_ISREG(inode.i_mode) THEN
        IF inode.i_sb = NULL THEN NULL
        ELSE IF is_pseudo_filesystem(sbs, inode.i_sb) THEN NULL
        ELSE IF is_network_filesystem(sbs, inode.i_sb) THEN NULL
        ELSE IF sbs[inode.i_sb].s_bdev # NULL THEN sbs[inode.i_sb].s_bdev
        ELSE NULL
    ELSE NULL

get_block_device_from_file(sbs, inode) ==
    IF S_ISBLK(inode.i_mode) THEN inode.i_bdev
    ELSE IF S_ISREG(inode.i_mode) THEN
        IF inode.i_sb = NULL THEN NULL
        ELSE IF is_pseudo_filesystem(sbs, inode.i_sb) THEN NULL
        ELSE IF is_network_filesystem(sbs, inode.i_sb) THEN NULL
        ELSE IF sbs[inode.i_sb].s_bdev # NULL THEN sbs[inode.i_sb].s_bdev
        ELSE NULL
    ELSE NULL

(***************************************************************************)
(* Sector range of a byte range                                            *)
(***************************************************************************)
\* file_offset + length - 1: loff_t + size_t, computed in unsigned 64 bits.
LastByte(file_offset, length) ==
    U64SubInt(U64Add(file_offset, length), 1)

\* The start sector left in blocks: the shift to sectors forgotten.
BlockStartUnshifted(logical_block_start, blkbits) == logical_block_start

\* The end sector without the step to the next block: the + 1 forgotten.
BlockEndNoRoundUp(logical_block_end, blkbits) ==
    U64SubInt(U64Shl(logical_block_end, blkbits - SECTOR_SHIFT), 1)

\* start_sector = logical_block_start << (blkbits - 9)
BlockStartSector(logical_block_start, blkbits) ==
    U64Shl(logical_block_start, blkbits - SECTOR_SHIFT)

\* end_sector = ((logical_block_end + 1) << (blkbits - 9)) - 1
BlockEndSector(logical_block_end, blkbits) ==
    U64SubInt(U64Shl(U64AddInt(logical_block_end, 1),
                     blkbits - SECTOR_SHIFT), 1)

\* The result of calculate_sector_range: ret, and the two out-parameters
\* (written only when ret = 0; `old` is what they held before the call).
calculate_sector_range(sbs, inode, file_offset, length, old) ==
    IF S_ISBLK(inode.i_mode) THEN
        [ret |-> 0,
         sector_start |-> S64Shr(file_offset, SECTOR_SHIFT),
         sector_end |-> U64Shr(LastByte(file_offset, length), SECTOR_SHIFT)]
    ELSE IF S_ISREG(inode.i_mode) THEN
        IF inode.i_sb = NULL \/ sbs[inode.i_sb].s_bdev = NULL THEN
            [old EXCEPT !.ret = -ENODEV]
        ELSE LET blkbits == sbs[inode.i_sb].s_blocksize_bits IN
        IF blkbits < SECTOR_SHIFT THEN
            [old EXCEPT !.ret = -EINVAL]
        ELSE
            LET logical_block_start == S64Shr(file_offset, blkbits)
                logical_block_end ==
                    U64Shr(LastByte(file_offset, length), blkbits)
            IN  [ret |-> 0,
                 sector_start |->
                     BlockStartSector(logical_block_start, blkbits),
                 sector_end |-> BlockEndSector(logical_block_end, blkbits)]
    ELSE [old EXCEPT !.ret = -ENODEV]

(***************************************************************************)
(* Bounds of the model                                                     *)
(***************************************************************************)
\* Ancestry chains of every mix of node kinds are built up to this depth.
MaxDepth == 3

\* The longest uniform chains hold this many nodes more than the capacity.
MaxExtra == 2

\* Requests one caller submits, one after the other.
MaxRuns == 2

(***************************************************************************)
(* The system a request runs against                                       *)
(***************************************************************************)
Superblock(name, bdev, bits) ==
    [s_type |-> name, s_bdev |-> bdev, s_blocksize_bits |-> bits]

Inode(mode, bdev, sb) == [i_mode |-> mode, i_bdev |-> bdev, i_sb |-> sb]

FileModes ==
    {"S_IFBLK", "S_IFREG", "S_IFDIR", "S_IFCHR", "S_IFLNK", "S_IFIFO",
     "S_IFSOCK"}

\* Filesystem type names: the three lists of the code, two names in none
\* of them, and a superblock that names no type.
TypeNames ==
    KnownRealFilesystems \cup KnownPseudoFilesystems
        \cup KnownNetworkFilesystems \cup {"vfat", "f2fs", NO_TYPE}

\* s_blocksize_bits: 256-byte blocks (below a sector), 512, 1K, 4K, 64K.
BlockBits == {8, 9, 10, 12, 16}

\* The address of the i-th device object: the first lies exactly on the
\* lower edge of the kernel range, the others a page apart above it.
NodeAddr(i) == U64Add(KERNEL_ADDR_MIN, <<0, i - 1, 0, 0>>)

\* 0xffff7fffffffffff: the highest address below the kernel range.
BAD_ADDR == U64SubInt(KERNEL_ADDR_MIN, 1)

DISK_ADDR == U64Add(KERNEL_ADDR_MIN, <<256, 0, 1, 0>>)

PART0_ADDR == U64Add(KERNEL_ADDR_MIN, <<512, 0, 1, 0>>)

\* 0xfffffffffffffff0: a part0 so high that the address of the device
\* inside it, part0 plus the member's offset, wraps below the kernel range.
TOP_ADDR == U64SubInt(U64Zero, 16)

\* Kinds of device node: the disk's own device, another non-PCI device
\* (a controller class device, an aggregation device), an NVMe controller,
\* an NVMe-class function with another programming interface, a PCI
\* bridge, an AHCI controller, a PCI device without a bus, and a node
\* whose address lies below the kernel range.
NodeKinds ==
    {"disk", "virt", "nvme", "nvme_pi", "bridge", "ahci", "nobus", "bad"}

ClassOf(kind) ==
    CASE kind \in {"nvme", "nobus"} -> PCI_CLASS_STORAGE_EXPRESS
      [] kind = "nvme_pi" -> PCI_CLASS_STORAGE_EXPRESS + 1
      [] kind = "bridge" -> 394240
      [] kind = "ahci" -> 67073
      [] OTHER -> 0

\* Node i of a chain of n nodes: its parent is node i + 1, the last has none.
Node(kind, i, n) ==
    [kind |-> kind,
     id |-> i,
     addr |-> IF kind = "bad" THEN BAD_ADDR ELSE NodeAddr(i),
     parent |-> IF i < n THEN i + 1 ELSE NULL,
     is_pci |-> kind \in {"nvme", "nvme_pi", "bridge", "ahci", "nobus"},
     has_bus |-> kind \in {"nvme", "nvme_pi", "bridge", "ahci"},
     class |-> ClassOf(kind),
     vendor |-> IF kind \in {"bridge", "ahci"} THEN 32902 ELSE 6966,
     device |-> 16 + i,
     bus_number |-> i % 256,
     devfn |-> (9 * i) % 256]

\* The device objects of a disk whose ancestors, nearest first, are of the
\* given kinds.
Chain(kinds) ==
    LET n == Len(kinds) + 1
    IN  [i \in 1..n |-> Node(IF i = 1 THEN "disk" ELSE kinds[i - 1], i, n)]

SeqsUpTo(S, n) == UNION {[1..k -> S] : k \in 0..n}

ShortChains == SeqsUpTo({"virt", "nvme", "bridge", "nobus", "bad"}, MaxDepth)

LongChains ==
    {[i \in 1..n |-> "nvme"] :
        n \in (MAX_PCIE_DEVICES - 1)..(MAX_PCIE_DEVICES + MaxExtra)}
    \cup {[i \in 1..(MAX_PCIE_DEVICES + MaxExtra + 1) |->
              IF i = k THEN "bridge" ELSE "nvme"] : k \in {1, MAX_PCIE_DEVICES}}

OtherChains ==
    {<<"virt", "nvme_pi">>, <<"ahci", "nvme">>, <<"virt", "ahci", "virt">>,
     <<"virt", "nvme", "bridge", "virt">>,
     <<"virt", "virt", "nvme", "nvme_pi", "bridge">>}

DefaultChain == <<"virt", "nvme", "bridge">>

\* The block device, its gendisk and the gendisk's part0, by what is wrong
\* with them.
DiskShapes ==
    {"ok", "no_disk", "bad_disk", "no_part0", "bad_part0", "bad_dev"}

Device(shape, kinds) ==
    [bd_disk |-> CASE shape = "no_disk" -> NULL_ADDR
                   [] shape = "bad_disk" -> BAD_ADDR
                   [] OTHER -> DISK_ADDR,
     part0 |-> CASE shape = "no_part0" -> NULL_ADDR
                 [] shape = "bad_part0" -> BAD_ADDR
                 [] shape = "bad_dev" -> TOP_ADDR
                 [] OTHER -> PART0_ADDR,
     nodes |-> IF shape = "bad_dev"
               THEN [Chain(kinds) EXCEPT ![1].addr = BAD_ADDR]
               ELSE Chain(kinds)]

AllDevices ==
    {Device("ok", k) : k \in ShortChains \cup LongChains \cup OtherChains}
    \cup {Device(s, DefaultChain) : s \in DiskShapes}

FewDevices == {Device("ok", DefaultChain), Device("ok", <<>>)}

\* Files that resolve to the block device: a bound block-special file, and
\* regular files on a local filesystem of each block size.
CoreFiles ==
    {[inode |-> Inode("S_IFBLK", 1, 1),
      sb |-> Superblock("devtmpfs", NULL, 12)]}
    \cup {[inode |-> Inode("S_IFREG", NULL, 1), sb |-> Superblock(t, 1, b)] :
             t \in {"ext4", "vfat"}, b \in BlockBits}

\* Every object kind on every filesystem type, with and without a backing
\* device, and with the superblock missing.
AllFiles ==
    {[inode |-> Inode(m, IF m = "S_IFBLK" THEN d ELSE NULL, s),
      sb |-> Superblock(t, b, 12)] :
        m \in FileModes, d \in {NULL, 1}, s \in {NULL, 1},
        t \in TypeNames, b \in {NULL, 1}}

\* The open descriptor of the file, one that is not open, a negative one.
OPEN_FD == 3

Fds == {OPEN_FD, OPEN_FD + 4, -1}

GoodCmd == [type |-> FILE_TO_PCIE_IOC_MAGIC, nr |-> FILE_TO_PCIE_IOC_NR]

Cmds == {GoodCmd, [GoodCmd EXCEPT !.type = "g"], [GoodCmd EXCEPT !.nr = 2]}

\* The caller's buffer: mapped read-write, read-only, not mapped, or lying
\* across two pages of which the first can be written and the second only
\* read, the boundary falling after the first entry of the array.
ArgKinds == {"rw", "ro", "unmapped", "part"}

MAX_S64 == <<65535, 65535, 65535, 32767>>

MAX_U64 == <<65535, 65535, 65535, 65535>>

Offsets ==
    {U64(n) : n \in {0, 1, 511, 512, 513, 1024, 4095, 4096, 65536, 1048576}}
    \cup {MAX_S64, U64SubInt(MAX_S64, 1), U64SubInt(MAX_S64, 511),
          U64Shl(U64(1), 62)}
    \cup {U64SubInt(U64Zero, 1), U64SubInt(U64Zero, 1024)}

Lengths ==
    {U64(n) : n \in {0, 1, 2, 512, 1024, 4096, 1048576}}
    \cup {U64Shl(U64(1), 63), MAX_U64}

Request(cmd, arg, fd, offset, length) ==
    [cmd |-> cmd, arg |-> arg, fd |-> fd, offset |-> offset,
     length |-> length]

AllRanges ==
    {Request(GoodCmd, "rw", OPEN_FD, o, l) : o \in Offsets, l \in Lengths}

FewRanges ==
    {Request(GoodCmd, "rw", OPEN_FD, U64(o), U64(1024)) : o \in {0, 1048576}}

OddRequests ==
    {Request(c, a, f, U64Zero, U64(1024)) :
        c \in Cmds, a \in ArgKinds, f \in Fds}

World(file, dev, request) ==
    [sys |-> [inode |-> file.inode, sbs |-> <<file.sb>>, fds |-> {OPEN_FD},
              bdevs |-> <<[bd_disk |-> dev.bd_disk]>>,
              disk |-> [addr |-> DISK_ADDR, part0 |-> dev.part0],
              nodes |-> dev.nodes, freed |-> {}],
     request |-> request]

BoundBlockFile ==
    [inode |-> Inode("S_IFBLK", 1, 1), sb |-> Superblock("devtmpfs", NULL, 12)]

Ext4File ==
    [inode |-> Inode("S_IFREG", NULL, 1), sb |-> Superblock("ext4", 1, 12)]

ProcFile ==
    [inode |-> Inode("S_IFREG", NULL, 1), sb |-> Superblock("proc", NULL, 12)]

\* The scenarios: every byte range on the resolving files, every device on
\* two of them, every file, and every kind of request on three files.
Worlds ==
    {World(f, Device("ok", DefaultChain), r) :
        f \in CoreFiles, r \in AllRanges}
    \cup {World(f, d, r) :
        f \in {BoundBlockFile, Ext4File}, d \in AllDevices, r \in FewRanges}
    \cup {World(f, d, Request(GoodCmd, "rw", OPEN_FD, U64Zero, U64(1024))) :
        f \in AllFiles, d \in FewDevices}
    \cup {World(f, Device("ok", DefaultChain), r) :
        f \in {BoundBlockFile, Ext4File, ProcFile}, r \in OddRequests}

(***************************************************************************)
(* State                                                                   *)
(***************************************************************************)
CallerIds == {"c1", "c2"}

VARIABLES
    mod,        \* the module: loaded or not, and its registration calls
    sys,        \* the file, its filesystem, the block device and its ancestry
    callers,    \* the callers that submit requests
    args,       \* what each caller asks: command, buffer, fd, offset, length
    f_count,    \* the reference count of the open file
    pc,         \* where each caller is
    runs,       \* how many requests each caller has submitted
    ureq,       \* each caller's struct file_to_pcie_request, in user memory
    frame,      \* the handler's locals for each caller's request
    trace,      \* the steps the handler has taken for the current request
    results     \* what each caller got back, request by request

vars ==
    <<mod, sys, callers, args, f_count, pc, runs, ureq, frame, trace, results>>

\* One entry of pcie_devices after memset(&req, 0, sizeof(req)).
ZeroDevice ==
    [vendor_id |-> 0, device_id |-> 0, bus |-> 0, device |-> 0,
     function |-> 0, name |-> <<>>,
     file_offset_start |-> U64Zero, file_offset_end |-> U64Zero,
     sector_start |-> U64Zero, sector_end |-> U64Zero]

\* The request after memset.  pcie_devices maps the indices that have been
\* written to their entries; every other entry of the array is ZeroDevice.
ZeroRequest ==
    [fd |-> 0, offset |-> U64Zero, length |-> U64Zero, pcie_count |-> 0,
     pcie_devices |-> <<>>]

\* Entry i of the array.
DeviceAt(devices, i) ==
    IF i \in DOMAIN devices THEN devices[i] ELSE ZeroDevice

\* The new entry is put in front of the i entries already written.
StoreDeviceAtFront(devices, i, d) ==
    [k \in 0..i |-> IF k = 0 THEN d ELSE devices[k - 1]]

\* The array with entry i written.
StoreDevice(devices, i, d) ==
    [k \in DOMAIN devices \cup {i} |-> IF k = i THEN d ELSE devices[k]]

\* The locals of file_to_pcie_ioctl and of find_pcie_devices_for_bdev.
ZeroFrame ==
    [req |-> ZeroRequest, target_file |-> NULL, bdev |-> NULL, ret |-> 0,
     sector_start |-> U64Zero, sector_end |-> U64Zero, count |-> 0,
     dev |-> NULL]

(***************************************************************************)
(* file_to_pcie_init and file_to_pcie_exit                                 *)
(***************************************************************************)
\* The steps of file_to_pcie_init, in order, each of which the kernel may
\* refuse.
InitSteps ==
    <<"alloc_chrdev_region", "cdev_add", "class_create", "device_create">>

\* The call that gives back what a step registered.
ReleaseOf(step) ==
    CASE step = "alloc_chrdev_region" -> "unregister_chrdev_region"
      [] step = "cdev_add" -> "cdev_del"
      [] step = "class_create" -> "class_destroy"
      [] step = "device_create" -> "device_destroy"

\* The cleanup when device_create fails, cdev_del forgotten.
DeviceCreateFailedLeaks == <<"class_destroy", "unregister_chrdev_region">>

\* The cleanup when cdev_add, class_create, device_create fail.
CdevAddFailed == <<"unregister_chrdev_region">>

ClassCreateFailed == <<"cdev_del", "unregister_chrdev_region">>

DeviceCreateFailed ==
    <<"class_destroy", "cdev_del", "unregister_chrdev_region">>

\* file_to_pcie_init when the step `fail` is refused ("none": no step is):
\* its return value and the registration calls that took effect, in order.
file_to_pcie_init(fail) ==
    IF fail = "alloc_chrdev_region" THEN [ret |-> -1, calls |-> <<>>]
    ELSE IF fail = "cdev_add" THEN
        [ret |-> -1, calls |-> <<"alloc_chrdev_region">> \o CdevAddFailed]
    ELSE IF fail = "class_create" THEN
        [ret |-> -1,
         calls |-> <<"alloc_chrdev_region", "cdev_add">>
                       \o ClassCreateFailed]
    ELSE IF fail = "device_create" THEN
        [ret |-> -1,
         calls |-> <<"alloc_chrdev_region", "cdev_add", "class_create">>
                       \o DeviceCreateFailed]
    ELSE [ret |-> 0,
          calls |-> <<"alloc_chrdev_region", "cdev_add", "class_create",
                      "device_create">>]

\* The calls of file_to_pcie_exit.
file_to_pcie_exit ==
    <<"device_destroy", "class_destroy", "cdev_del",
      "unregister_chrdev_region">>

\* How many times the module may be loaded.
MaxLoads == 2

\* The module before it is first loaded, and after a load that succeeded.
AbsentModule == [state |-> "absent", ret |-> 0, calls |-> <<>>, loads |-> 0]

LoadedModule ==
    [state |-> "loaded", ret |-> 0,
     calls |-> file_to_pcie_init("none").calls, loads |-> 1]

Init ==
    /\ \E w \in Worlds :
          /\ sys = w.sys
          /\ args = [c \in CallerIds |-> w.request]
    /\ callers = {"c1"}
    /\ f_count = 1
    /\ pc = [c \in CallerIds |-> "user"]
    /\ runs = [c \in CallerIds |-> 0]
    /\ ureq = [c \in CallerIds |-> ZeroRequest]
    /\ frame = [c \in CallerIds |-> ZeroFrame]
    /\ trace = [c \in CallerIds |-> <<>>]
    /\ results = [c \in CallerIds |-> <<>>]
    /\ mod = LoadedModule

\* Two processes that have each opened the device and the same file, each
\* with a request of its own.
ConcurrentRequests ==
    {Request(GoodCmd, "rw", OPEN_FD, U64Zero, U64(1024)),
     Request(GoodCmd, "rw", OPEN_FD, U64(4096), U64(512)),
     Request(GoodCmd, "rw", -1, U64Zero, U64(1024)),
     Request(GoodCmd, "ro", OPEN_FD, U64(512), U64(1))}

ConcurrentDevices ==
    {Device("ok", DefaultChain), Device("ok", <<"nvme", "bridge", "nvme">>)}

InitConcurrent ==
    /\ \E f \in {BoundBlockFile, Ext4File, ProcFile} :
       \E d \in ConcurrentDevices :
       \E r1, r2 \in ConcurrentRequests :
          /\ sys = World(f, d, r1).sys
          /\ args = [c \in CallerIds |-> IF c = "c1" THEN r1 ELSE r2]
    /\ callers = CallerIds
    /\ f_count = 1
    /\ pc = [c \in CallerIds |-> "user"]
    /\ runs = [c \in CallerIds |-> 0]
    /\ ureq = [c \in CallerIds |-> ZeroRequest]
    /\ frame = [c \in CallerIds |-> ZeroFrame]
    /\ trace = [c \in CallerIds |-> <<>>]
    /\ results = [c \in CallerIds |-> <<>>]
    /\ mod = LoadedModule

TheInode == sys.inode

\* The handler goes to `label` having done `step`.  A step that repeats
\* (a pass of the walk's loop) is noted once.
Goto(c, label, step) ==
    /\ pc' = [pc EXCEPT ![c] = label]
    /\ trace' = [trace EXCEPT ![c] =
                    IF @ # <<>> /\ @[Len(@)] = step THEN @
                    ELSE Append(@, step)]

(***************************************************************************)
(* The caller: main of test_file_to_pcie.c                                 *)
(***************************************************************************)
\* memset the request, fill in fd, offset and length, call ioctl on the
\* device the loaded module has created.
Submit(c) ==
    /\ pc[c] = "user"
    /\ mod.state = "loaded"
    /\ runs[c] < MaxRuns
    /\ runs' = [runs EXCEPT ![c] = @ + 1]
    /\ ureq' = [ureq EXCEPT ![c] =
                   [ZeroRequest EXCEPT !.fd = args[c].fd,
                                       !.offset = args[c].offset,
                                       !.length = args[c].length]]
    /\ pc' = [pc EXCEPT ![c] = "ioctl"]
    /\ trace' = [trace EXCEPT ![c] = <<>>]
    /\ UNCHANGED <<mod, sys, callers, args, f_count, frame, results>>

(***************************************************************************)
(* file_to_pcie_ioctl                                                      *)
(***************************************************************************)
\* The initialisers of the locals (target_file = NULL, bdev = NULL,
\* ret = 0), the command checks and copy_from_user.  The other locals keep
\* what the stack held.
IoctlEntry(c) ==
    /\ pc[c] = "ioctl"
    /\ LET f == [frame[c] EXCEPT !.target_file = NULL, !.bdev = NULL,
                                 !.ret = 0]
       IN  IF args[c].cmd.type # FILE_TO_PCIE_IOC_MAGIC
              \/ args[c].cmd.nr # FILE_TO_PCIE_IOC_NR THEN
               /\ frame' = [frame EXCEPT ![c] = [f EXCEPT !.ret = -ENOTTY]]
               /\ Goto(c, "out", "entry")
           ELSE IF args[c].arg = "unmapped" THEN
               /\ frame' = [frame EXCEPT ![c] = [f EXCEPT !.ret = -EFAULT]]
               /\ Goto(c, "out", "entry")
           ELSE
               /\ frame' = [frame EXCEPT ![c] = [f EXCEPT !.req = ureq[c]]]
               /\ Goto(c, "get_file", "entry")
    /\ UNCHANGED <<mod, sys, callers, args, f_count, runs, ureq, results>>

\* Every descriptor is taken for the open file.
get_file_unchecked(fd) == 1

\* get_file_from_fd: the file of descriptor fd (an index, NULL for none).
get_file_from_fd(fd) ==
    IF fd < 0 THEN NULL ELSE IF fd \in sys.fds THEN 1 ELSE NULL

\* target_file = get_file_from_fd(req.fd); fget takes a reference.
GetFile(c) ==
    /\ pc[c] = "get_file"
    /\ LET filp == get_file_from_fd(frame[c].req.fd) IN
       IF filp = NULL THEN
           /\ frame' = [frame EXCEPT ![c].target_file = NULL,
                                     ![c].ret = -EBADF]
           /\ f_count' = f_count
           /\ Goto(c, "out", "fget")
       ELSE
           /\ frame' = [frame EXCEPT ![c].target_file = filp]
           /\ f_count' = f_count + 1
           /\ Goto(c, "get_bdev", "fget")
    /\ UNCHANGED <<mod, sys, callers, args, runs, ureq, results>>

\* bdev = get_block_device_from_file(target_file)
GetBdev(c) ==
    /\ pc[c] = "get_bdev"
    /\ LET bdev == get_block_device_from_file(sys.sbs, TheInode) IN
       /\ frame' = [frame EXCEPT ![c].bdev = bdev]
       /\ Goto(c, IF bdev = NULL THEN "no_bdev" ELSE "find", "resolve")
    /\ UNCHANGED <<mod, sys, callers, args, f_count, runs, ureq, results>>

\* The error the handler chooses when no block device was found.
\* The superblock of any inode is consulted, regular file or not.
NoBdevErrorAnyInode(sbs, inode) ==
    LET sb == inode.i_sb
    IN  IF sb # NULL /\ is_pseudo_filesystem(sbs, sb) THEN -ENOTSUPP
        ELSE IF sb # NULL /\ is_network_filesystem(sbs, sb) THEN -ENOTSUPP
        ELSE -ENODEV

\* Every file without a block device is answered as on an unsupported
\* filesystem.
NoBdevErrorAlwaysUnsupported(sbs, inode) == -ENOTSUPP

NoBdevError(sbs, inode) ==
    LET sb == IF S_ISREG(inode.i_mode) THEN inode.i_sb ELSE NULL
    IN  IF sb # NULL /\ is_pseudo_filesystem(sbs, sb) THEN -ENOTSUPP
        ELSE IF sb # NULL /\ is_network_filesystem(sbs, sb) THEN -ENOTSUPP
        ELSE -ENODEV

NoBdev(c) ==
    /\ pc[c] = "no_bdev"
    /\ frame' = [frame EXCEPT ![c].ret = NoBdevError(sys.sbs, TheInode)]
    /\ Goto(c, "out_file", "reject")
    /\ UNCHANGED <<mod, sys, callers, args, f_count, runs, ureq, results>>

(***************************************************************************)
(* find_pcie_devices_for_bdev                                              *)
(***************************************************************************)
\* int count = 0
\* The count of the caller's previous request is carried over.
StaleCount(c) == frame[c].count

\* The count is kept in one place for all callers: a request starts from
\* the count another caller's request has reached.
SharedCount(c) == frame[CHOOSE d \in CallerIds : d # c].count

InitialCount(c) == 0

\* A failed range computation is not noticed.
RangeFailureIgnored(ret) == FALSE

\* if (ret < 0) return ret;
RangeFailed(ret) == ret < 0

\* Entry, and the sector range of the request.  A failure returns to the
\* handler, which goes to out_bdev.
CalcRange(c) ==
    /\ pc[c] = "find"
    /\ LET f == frame[c]
           r == calculate_sector_range(
                    sys.sbs, TheInode, f.req.offset, f.req.length,
                    [ret |-> 0, sector_start |-> f.sector_start,
                     sector_end |-> f.sector_end])
       IN  /\ frame' = [frame EXCEPT ![c].count = InitialCount(c),
                                     ![c].ret = r.ret,
                                     ![c].sector_start = r.sector_start,
                                     ![c].sector_end = r.sector_end]
           /\ Goto(c, IF RangeFailed(r.ret) THEN "out_file" ELSE "disk",
                   "range")
    /\ UNCHANGED <<mod, sys, callers, args, f_count, runs, ureq, results>>

\* The device of the block device's disk: the index of its node, or the
\* error of the first check that fails.
DiskToDev(bdev) ==
    LET disk == sys.bdevs[bdev].bd_disk
        part0 == sys.disk.part0
        dev == 1
    IN  IF disk = NULL_ADDR THEN [ret |-> -ENODEV, dev |-> NULL]
        ELSE IF BelowKernelRange(disk) THEN [ret |-> -ENODEV, dev |-> NULL]
        ELSE IF part0 = NULL_ADDR THEN [ret |-> -ENODEV, dev |-> NULL]
        ELSE IF BelowKernelRange(part0) THEN [ret |-> -ENODEV, dev |-> NULL]
        ELSE IF BelowKernelRange(sys.nodes[dev].addr) THEN
            [ret |-> -ENODEV, dev |-> NULL]
        ELSE [ret |-> 0, dev |-> dev]

WalkSetup(c) ==
    /\ pc[c] = "disk"
    /\ LET r == DiskToDev(frame[c].bdev) IN
       IF r.ret < 0 THEN
           /\ frame' = [frame EXCEPT ![c].ret = r.ret]
           /\ Goto(c, "out_file", "setup")
       ELSE
           /\ frame' = [frame EXCEPT ![c].dev = r.dev]
           /\ Goto(c, "walk", "setup")
    /\ UNCHANGED <<mod, sys, callers, args, f_count, runs, ureq, results>>

\* The loop goes on while count <= MAX_PCIE_DEVICES: one entry too many.
WalkConditionOffByOne(c) ==
    frame[c].dev # NULL /\ frame[c].count <= MAX_PCIE_DEVICES

\* while (dev && count < MAX_PCIE_DEVICES)
WalkCondition(c) ==
    frame[c].dev # NULL /\ frame[c].count < MAX_PCIE_DEVICES

\* Every PCI device is recorded, whatever its class.
IsAnyClass(class) == TRUE

\* (pdev->class & 0xffffff00) == (PCI_CLASS_STORAGE_EXPRESS & 0xffffff00)
IsTargetClass(class) ==
    ClassMask(class) = ClassMask(PCI_CLASS_STORAGE_EXPRESS)

\* The entry with its sectors computed anew from the byte range at 512
\* bytes a sector, not taken from the range computed before the walk.
DescriptorRecomputed(pdev, req, sector_start, sector_end) ==
    [vendor_id |-> pdev.vendor,
     device_id |-> pdev.device,
     bus |-> pdev.bus_number,
     device |-> PCI_SLOT(pdev.devfn),
     function |-> PCI_FUNC(pdev.devfn),
     name |-> <<0, pdev.bus_number, PCI_SLOT(pdev.devfn),
                PCI_FUNC(pdev.devfn)>>,
     file_offset_start |-> req.offset,
     file_offset_end |-> LastByte(req.offset, req.length),
     sector_start |-> S64Shr(req.offset, SECTOR_SHIFT),
     sector_end |-> U64Shr(LastByte(req.offset, req.length), SECTOR_SHIFT)]

\* The entry written for the PCI device pdev.
Descriptor(pdev, req, sector_start, sector_end) ==
    [vendor_id |-> pdev.vendor,
     device_id |-> pdev.device,
     bus |-> pdev.bus_number,
     device |-> PCI_SLOT(pdev.devfn),
     function |-> PCI_FUNC(pdev.devfn),
     name |-> <<0, pdev.bus_number, PCI_SLOT(pdev.devfn),
                PCI_FUNC(pdev.devfn)>>,
     file_offset_start |-> req.offset,
     file_offset_end |-> LastByte(req.offset, req.length),
     sector_start |-> sector_start,
     sector_end |-> sector_end]

\* The walk also ends at the first PCI device it meets.
NoNextAfterPci(node) ==
    \/ node.is_pci
    \/ node.parent = NULL
    \/ BelowKernelRange(sys.nodes[node.parent].addr)

\* The walk stays on the node it is on.
NextDevSame(node) == node.id

\* dev = next_dev, where next_dev = dev->parent
NextDev(node) == node.parent

\* next_dev = dev->parent is NULL or not a kernel pointer.
NoNext(node) ==
    node.parent = NULL \/ BelowKernelRange(sys.nodes[node.parent].addr)

\* What the fields of the device at index dev read as.  The memory of a
\* device that has been freed may still hold what it held, or may have been
\* cleared for another use.
ReadDevice(dev) ==
    IF dev \in sys.freed
    THEN {sys.nodes[dev],
          [sys.nodes[dev] EXCEPT !.parent = NULL, !.is_pci = FALSE]}
    ELSE {sys.nodes[dev]}

\* The note of a pass of the loop on the device at index dev.
WalkNote(dev) == IF dev \in sys.freed THEN "walk_freed" ELSE "walk"

\* One pass of the loop body.
WalkStep(c) ==
    /\ pc[c] = "walk"
    /\ WalkCondition(c)
    /\ \E node \in ReadDevice(frame[c].dev) :
       LET f == frame[c]
           note == WalkNote(f.dev)
       IN  IF BelowKernelRange(node.addr) THEN
               /\ frame' = frame
               /\ Goto(c, "walk_end", note)
           ELSE IF node.is_pci /\ ~node.has_bus THEN
               /\ frame' = [frame EXCEPT ![c].dev =
                               IF NoNext(node) THEN @ ELSE NextDev(node)]
               /\ Goto(c, IF NoNext(node) THEN "walk_end" ELSE "walk", note)
           ELSE
               LET match == node.is_pci /\ IsTargetClass(node.class)
                   count == IF match THEN f.count + 1 ELSE f.count
                   devices ==
                       IF match THEN
                           StoreDevice(f.req.pcie_devices, f.count,
                               Descriptor(node, f.req, f.sector_start,
                                          f.sector_end))
                       ELSE f.req.pcie_devices
               IN  /\ frame' = [frame EXCEPT
                                   ![c].req.pcie_devices = devices,
                                   ![c].count = count,
                                   ![c].dev = IF NoNext(node) THEN @
                                              ELSE NextDev(node)]
                   /\ Goto(c, IF NoNext(node) THEN "walk_end" ELSE "walk",
                           note)
    /\ UNCHANGED <<mod, sys, callers, args, f_count, runs, ureq, results>>

\* A walk that finds nothing is reported as an error.
WalkReturnNoneIsError(count) == IF count = 0 THEN -ENODEV ELSE count

\* return count
WalkReturn(count) == count

\* The loop is left: req->pcie_count = count; return count.  The handler
\* goes to out_bdev when the value is negative.
WalkEnd(c) ==
    /\ \/ pc[c] = "walk_end"
       \/ pc[c] = "walk" /\ ~WalkCondition(c)
    /\ LET ret == WalkReturn(frame[c].count) IN
       /\ frame' = [frame EXCEPT ![c].req.pcie_count = frame[c].count,
                                 ![c].ret = ret]
       /\ Goto(c, IF ret < 0 THEN "out_file" ELSE "copy_out", "walked")
    /\ UNCHANGED <<mod, sys, callers, args, f_count, runs, ureq, results>>

(***************************************************************************)
(* file_to_pcie_ioctl, after the walk                                      *)
(***************************************************************************)
\* copy_to_user(arg, &req, sizeof(req)): the caller's record after the
\* copy of `new` over `old`, and whether bytes were left uncopied.  The
\* copy goes up from the first byte and stops at the first one it cannot
\* write.
copy_to_user(kind, old, new) ==
    CASE kind = "rw" -> [left |-> FALSE, to |-> new]
      [] kind = "part" ->
            [left |-> TRUE,
             to |-> [new EXCEPT !.pcie_devices =
                        [i \in (DOMAIN new.pcie_devices \cap {0})
                               \cup (DOMAIN old.pcie_devices \ {0}) |->
                            IF i = 0 THEN new.pcie_devices[i]
                            ELSE old.pcie_devices[i]]]]
      [] OTHER -> [left |-> TRUE, to |-> old]

\* req.pcie_count = ret; copy_to_user; ret = 0.
CopyOut(c) ==
    /\ pc[c] = "copy_out"
    /\ LET req == [frame[c].req EXCEPT !.pcie_count = frame[c].ret]
           out == copy_to_user(args[c].arg, ureq[c], req)
       IN  /\ frame' = [frame EXCEPT ![c].req = req,
                                     ![c].ret = IF out.left THEN -EFAULT
                                                ELSE 0]
           /\ ureq' = [ureq EXCEPT ![c] = out.to]
    /\ Goto(c, "out_file", "copy_out")
    /\ UNCHANGED <<mod, sys, callers, args, f_count, runs, results>>

\* The reference is dropped a second time.
fput_twice(count) == count - 2

\* fput: the reference count of the file after the release.
fput(count) == count - 1

\* out_bdev, out_file: if (target_file) fput(target_file).
OutFile(c) ==
    /\ pc[c] = "out_file"
    /\ f_count' = IF frame[c].target_file # NULL THEN fput(f_count)
                  ELSE f_count
    /\ Goto(c, "out", "fput")
    /\ UNCHANGED <<mod, sys, callers, args, runs, ureq, frame, results>>

\* out: return ret.  The caller has the return value and its request.
Return(c) ==
    /\ pc[c] = "out"
    /\ results' = [results EXCEPT ![c] =
                      Append(@, [ret |-> frame[c].ret, req |-> ureq[c]])]
    /\ pc' = [pc EXCEPT ![c] = "user"]
    /\ UNCHANGED <<mod, sys, callers, args, f_count, runs, ureq, frame, trace>>

Next ==
    \/ \E c \in callers : Submit(c)
    \/ \E c \in callers : IoctlEntry(c)
    \/ \E c \in callers : GetFile(c)
    \/ \E c \in callers : GetBdev(c)
    \/ \E c \in callers : NoBdev(c)
    \/ \E c \in callers : CalcRange(c)
    \/ \E c \in callers : WalkSetup(c)
    \/ \E c \in callers : WalkStep(c)
    \/ \E c \in callers : WalkEnd(c)
    \/ \E c \in callers : CopyOut(c)
    \/ \E c \in callers : OutFile(c)
    \/ \E c \in callers : Return(c)

Spec == Init /\ [][Next]_vars

\* A step of the handler for caller c's request.
Handler(c) ==
    \/ IoctlEntry(c)
    \/ GetFile(c)
    \/ GetBdev(c)
    \/ NoBdev(c)
    \/ CalcRange(c)
    \/ WalkSetup(c)
    \/ WalkStep(c)
    \/ WalkEnd(c)
    \/ CopyOut(c)
    \/ OutFile(c)
    \/ Return(c)

\* Acyclic ancestries of every depth and mix of nodes, under a file that
\* resolves, and one file that does not.
LiveWorlds ==
    {World(BoundBlockFile, Device("ok", k),
           Request(GoodCmd, "rw", OPEN_FD, U64Zero, U64(1024))) :
        k \in SeqsUpTo({"virt", "nvme", "bridge", "nobus"}, MaxDepth)
              \cup LongChains \cup OtherChains}
    \cup {World(ProcFile, Device("ok", DefaultChain),
                Request(GoodCmd, "rw", OPEN_FD, U64Zero, U64(1024)))}

InitLive ==
    /\ \E w \in LiveWorlds :
          /\ sys = w.sys
          /\ args = [c \in CallerIds |-> w.request]
    /\ callers = {"c1"}
    /\ f_count = 1
    /\ pc = [c \in CallerIds |-> "user"]
    /\ runs = [c \in CallerIds |-> 0]
    /\ ureq = [c \in CallerIds |-> ZeroRequest]
    /\ frame = [c \in CallerIds |-> ZeroFrame]
    /\ trace = [c \in CallerIds |-> <<>>]
    /\ results = [c \in CallerIds |-> <<>>]
    /\ mod = LoadedModule

\* A thread that has entered the handler keeps running: the handler takes
\* no lock and waits for nothing.
SpecLive ==
    InitLive /\ [][Next]_vars /\ \A c \in CallerIds : WF_vars(Handler(c))

\* An ancestry whose topmost node has the node `back`, below it, for parent.
CyclicChain(kinds, back) ==
    [Chain(kinds) EXCEPT ![Len(kinds) + 1].parent = back]

CyclicDevices ==
    UNION {{[Device("ok", k) EXCEPT !.nodes = CyclicChain(k, b)] :
               b \in 1..Len(k)} :
           k \in SeqsUpTo({"virt", "nvme", "bridge"}, MaxDepth)}

CyclicWorlds ==
    {World(f, d, Request(GoodCmd, "rw", OPEN_FD, U64Zero, U64(1024))) :
        f \in {BoundBlockFile, ProcFile}, d \in CyclicDevices}

InitCyclic ==
    /\ \E w \in CyclicWorlds :
          /\ sys = w.sys
          /\ args = [c \in CallerIds |-> w.request]
    /\ callers = {"c1"}
    /\ f_count = 1
    /\ pc = [c \in CallerIds |-> "user"]
    /\ runs = [c \in CallerIds |-> 0]
    /\ ureq = [c \in CallerIds |-> ZeroRequest]
    /\ frame = [c \in CallerIds |-> ZeroFrame]
    /\ trace = [c \in CallerIds |-> <<>>]
    /\ results = [c \in CallerIds |-> <<>>]
    /\ mod = LoadedModule

\* The handler on ancestries that loop back on themselves.
SpecCyclic ==
    InitCyclic /\ [][Next]_vars /\ \A c \in CallerIds : WF_vars(Handler(c))

\* Another thread removes an ancestor of the disk's device (a controller is
\* unplugged, a driver unbound) and its memory is freed.  The walk holds no
\* reference on the nodes and no lock of the device tree, so nothing delays
\* the removal.  The disk's own device is held by the open file.
RemoveDevice(n) ==
    /\ n \in 2..Len(sys.nodes)
    /\ n \notin sys.freed
    /\ sys' = [sys EXCEPT !.freed = @ \cup {n}]
    /\ UNCHANGED <<mod, callers, args, f_count, pc, runs, ureq, frame, trace,
                   results>>

RemovalWorlds ==
    {World(f, Device("ok", k),
           Request(GoodCmd, "rw", OPEN_FD, U64Zero, U64(1024))) :
        f \in {BoundBlockFile, ProcFile},
        k \in {<<"nvme">>, DefaultChain}}

InitRemoval ==
    /\ \E w \in RemovalWorlds :
          /\ sys = w.sys
          /\ args = [c \in CallerIds |-> w.request]
    /\ callers = {"c1"}
    /\ f_count = 1
    /\ pc = [c \in CallerIds |-> "user"]
    /\ runs = [c \in CallerIds |-> 0]
    /\ ureq = [c \in CallerIds |-> ZeroRequest]
    /\ frame = [c \in CallerIds |-> ZeroFrame]
    /\ trace = [c \in CallerIds |-> <<>>]
    /\ results = [c \in CallerIds |-> <<>>]
    /\ mod = LoadedModule

NextRemoval ==
    \/ Next
    \/ \E n \in 2..(MaxDepth + 1) : RemoveDevice(n)

\* The handler while devices of the ancestry are removed.
SpecRemoval == InitRemoval /\ [][NextRemoval]_vars

\* insmod: file_to_pcie_init runs, the kernel refusing the step `fail`.
ModuleInit(fail) ==
    /\ mod.state = "absent"
    /\ mod.loads < MaxLoads
    /\ LET r == file_to_pcie_init(fail) IN
       mod' = [state |-> IF r.ret = 0 THEN "loaded" ELSE "absent",
               ret |-> r.ret, calls |-> r.calls, loads |-> mod.loads + 1]
    /\ UNCHANGED <<sys, callers, args, f_count, pc, runs, ureq, frame, trace,
                   results>>

\* rmmod: file_to_pcie_exit runs.  fops.owner keeps the module while its
\* device is open, so no request is in flight.
ModuleExit ==
    /\ mod.state = "loaded"
    /\ \A c \in CallerIds : pc[c] = "user"
    /\ mod' = [mod EXCEPT !.state = "absent",
                          !.calls = @ \o file_to_pcie_exit]
    /\ UNCHANGED <<sys, callers, args, f_count, pc, runs, ureq, frame, trace,
                   results>>

ModuleWorlds ==
    {World(f, d, Request(GoodCmd, "rw", OPEN_FD, U64Zero, U64(1024))) :
        f \in {BoundBlockFile, Ext4File, ProcFile}, d \in FewDevices}

InitModule ==
    /\ \E w \in ModuleWorlds :
          /\ sys = w.sys
          /\ args = [c \in CallerIds |-> w.request]
    /\ callers = {"c1"}
    /\ f_count = 1
    /\ pc = [c \in CallerIds |-> "user"]
    /\ runs = [c \in CallerIds |-> 0]
    /\ ureq = [c \in CallerIds |-> ZeroRequest]
    /\ frame = [c \in CallerIds |-> ZeroFrame]
    /\ trace = [c \in CallerIds |-> <<>>]
    /\ results = [c \in CallerIds |-> <<>>]
    /\ mod = AbsentModule

NextModule ==
    \/ Next
    \/ \E fail \in {InitSteps[i] : i \in DOMAIN InitSteps} \cup {"none"} :
          ModuleInit(fail)
    \/ ModuleExit

\* The module loaded and unloaded, requests served while it is loaded.
SpecModule == InitModule /\ [][NextModule]_vars

\* Requests of two callers, their steps interleaved in any order.
SpecConcurrent == InitConcurrent /\ [][Next]_vars

(***************************************************************************)
(* Properties                                                              *)
(***************************************************************************)
\* The handler has taken `step` for caller c's current request.
Did(c, step) == \E i \in DOMAIN trace[c] : trace[c][i] = step

\* The sector range of c's request has just been computed.
RangeComputed(c) == pc[c] = "disk"

\* Exact arithmetic on naturals of any number of limbs, for stating what a
\* result should be: a fifth limb holds what 64 bits cannot.
Wide(x) == x \o <<0>>

\* floor(x / d) for 0 < d <= 32768, by long division from the top limb.
RECURSIVE DivFrom(_, _, _, _)
DivFrom(x, d, i, rem) ==
    IF i < 1 THEN <<>>
    ELSE LET cur == rem * 65536 + x[i]
         IN  DivFrom(x, d, i - 1, cur % d) \o <<cur \div d>>

FloorDiv(x, d) == DivFrom(x, d, Len(x), 0)

\* offset + length - 1 as a natural number, for length > 0.
ExactLastByte(offset, length) ==
    SubLimbs(AddLimbs(Wide(offset), Wide(length), 1, 0), Wide(U64(1)), 1, 0)

\* The request is one the data model allows: offset >= 0 and length > 0.
ValidRange(req) == ~IsNegative(req.offset) /\ req.length # U64Zero

\* C1: for a block-special handle, every offset >= 0 and length > 0 gives
\* sector_start = floor(offset / 512) and
\* sector_end = floor((offset + length - 1) / 512), as natural numbers, with
\* no filesystem block size taking part.
C1_BlockSpecialRangeExact ==
    \A c \in callers :
        (RangeComputed(c) /\ S_ISBLK(TheInode.i_mode)
            /\ ValidRange(frame[c].req))
        => /\ frame[c].sector_start = FloorDiv(frame[c].req.offset, 512)
           /\ Wide(frame[c].sector_end) =
                  FloorDiv(ExactLastByte(frame[c].req.offset,
                                         frame[c].req.length), 512)

\* floor(x / 2^n) and x * 2^n mod 2^64, by halving and doubling n times.
RECURSIVE HalveN(_, _)
HalveN(x, n) == IF n = 0 THEN x ELSE HalveN(FloorDiv(x, 2), n - 1)

RECURSIVE DoubleN(_, _)
DoubleN(x, n) == IF n = 0 THEN x ELSE DoubleN(U64Add(x, x), n - 1)

TheSb == sys.sbs[TheInode.i_sb]

\* C2: for a regular file on a local filesystem with a backing device and
\* block_bits b >= 9, with >> and << the operations on 64-bit words and the
\* last byte offset + length - 1 taken in 64 bits,
\* sector_start = (offset >> b) << (b - 9) and
\* sector_end = ((((offset + length - 1) >> b) + 1) << (b - 9)) - 1;
\* b = 12, offset = 0, length = 1024 gives sectors 0 to 7.
C2_RegularRangeIsBlockExpansion ==
    \A c \in callers :
        (RangeComputed(c) /\ S_ISREG(TheInode.i_mode)
            /\ ValidRange(frame[c].req))
        => LET b == TheSb.s_blocksize_bits
               offset == frame[c].req.offset
               length == frame[c].req.length
               last == U64SubInt(U64Add(offset, length), 1)
           IN  /\ b >= 9
               /\ TheSb.s_bdev # NULL
               /\ frame[c].sector_start = DoubleN(HalveN(offset, b), b - 9)
               /\ frame[c].sector_end =
                      U64SubInt(DoubleN(U64AddInt(HalveN(last, b), 1), b - 9),
                                1)
               /\ (b = 12 /\ offset = U64(0) /\ length = U64(1024))
                  => /\ frame[c].sector_start = U64(0)
                     /\ frame[c].sector_end = U64(7)

\* Scenario A is reached: a regular file on ext4 with 4096-byte blocks,
\* offset 0, length 1024, and its range computed.
C2_Witness ==
    /\ RangeComputed("c1")
    /\ S_ISREG(TheInode.i_mode)
    /\ TheSb.s_type = "ext4"
    /\ TheSb.s_blocksize_bits = 12
    /\ frame["c1"].req.offset = U64(0)
    /\ frame["c1"].req.length = U64(1024)
    /\ frame["c1"].sector_end = U64(7)

\* The byte range lies within a file: offset >= 0, length > 0 and
\* offset + length, as a natural number, at most 2^63 - 1, the largest
\* size a file can have.
WithinFile(req) ==
    /\ ValidRange(req)
    /\ LET size == AddLimbs(Wide(req.offset), Wide(req.length), 1, 0)
       IN  size[5] = 0 /\ size[4] < 32768

\* C3: for a regular file on a local filesystem with block size >= 512 and
\* a byte range within the file, 0 <= sector_start <= sector_end as signed
\* 64-bit values.
C3_RegularRangeOrdered ==
    \A c \in callers :
        (RangeComputed(c) /\ S_ISREG(TheInode.i_mode)
            /\ WithinFile(frame[c].req))
        => /\ ~IsNegative(frame[c].sector_start)
           /\ ~IsNegative(frame[c].sector_end)
           /\ S64LessEq(frame[c].sector_start, frame[c].sector_end)

\* A range at the very end of the largest file, on 64K blocks, is computed.
C3_Witness ==
    /\ RangeComputed("c1")
    /\ S_ISREG(TheInode.i_mode)
    /\ TheSb.s_type \in KnownRealFilesystems
    /\ TheSb.s_blocksize_bits = 16
    /\ frame["c1"].req.offset = U64SubInt(MAX_S64, 1)
    /\ frame["c1"].req.length = U64(1)

\* The request of caller c has ended: frame[c].ret is its result code and
\* ureq[c] the record the caller is left with.
Finished(c) == pc[c] = "out"

\* Node n is a well-formed PCI function of the NVM storage-controller
\* class: base class 01, subclass 08, any programming interface.
IsController(n) ==
    /\ sys.nodes[n].is_pci
    /\ sys.nodes[n].has_bus
    /\ sys.nodes[n].class \div 256 = 264

\* Entry d carries the identity of node n.
DescribesNode(d, n) ==
    /\ d.vendor_id = sys.nodes[n].vendor
    /\ d.device_id = sys.nodes[n].device
    /\ d.bus = sys.nodes[n].bus_number
    /\ d.device = (sys.nodes[n].devfn \div 8) % 32
    /\ d.function = sys.nodes[n].devfn % 8

\* Every one of the first `count` entries of req comes from a controller.
OnlyControllers(req, count) ==
    /\ count <= 16
    /\ \A i \in 0..(count - 1) :
           \E n \in DOMAIN sys.nodes :
               IsController(n) /\ DescribesNode(DeviceAt(req.pcie_devices, i), n)

\* C4: after any walk at most 16 descriptors are returned, and every one
\* was populated from a PCI node whose class code, lowest byte masked off,
\* is the NVM storage-controller class: no bridge, no non-PCI node and no
\* PCI node of another class is recorded.  It holds of the entries while
\* the walk collects them and of every record handed back.
C4_OnlyTargetControllers ==
    \A c \in callers :
        /\ pc[c] \in {"walk", "walk_end", "copy_out"}
           => /\ OnlyControllers(frame[c].req, frame[c].count)
              /\ DOMAIN frame[c].req.pcie_devices = 0..(frame[c].count - 1)
        /\ \A k \in DOMAIN results[c] :
               results[c][k].ret = 0
               => OnlyControllers(results[c][k].req,
                                  results[c][k].req.pcie_count)

\* A chain of more than 16 controllers with a bridge in it has been walked
\* and 16 descriptors were handed back.
C4_Witness ==
    /\ Len(results["c1"]) > 0
    /\ results["c1"][1].ret = 0
    /\ results["c1"][1].req.pcie_count = 16
    /\ Len(sys.nodes) > 17
    /\ \E n \in DOMAIN sys.nodes : sys.nodes[n].kind = "bridge"

\* The nodes the walk can reach: upward from the disk's device, as far as
\* the addresses are kernel addresses.
RECURSIVE Reachable(_)
Reachable(n) ==
    IF n = NULL \/ BelowKernelRange(sys.nodes[n].addr) THEN <<>>
    ELSE <<n>> \o Reachable(sys.nodes[n].parent)

\* The controllers among them, nearest first, up to the capacity.
ExpectedControllers ==
    LET found == SelectSeq(Reachable(1), IsController)
    IN  IF Len(found) > 16 THEN SubSeq(found, 1, 16) ELSE found

\* C5: the walk stops neither at the first peripheral device nor at the
\* first match: a non-matching peripheral node is passed over, and every
\* matching controller of the ancestry, up to 16, gets exactly one
\* descriptor, those above an aggregation node or a non-matching PCI node
\* included.
C5_EveryControllerOnce ==
    \A c \in callers :
        pc[c] = "copy_out"
        => /\ frame[c].count = Len(ExpectedControllers)
           /\ \A j \in 1..Len(ExpectedControllers) :
                  DescribesNode(DeviceAt(frame[c].req.pcie_devices, j - 1),
                                ExpectedControllers[j])

\* Two controllers were recorded above a bridge that is the disk's parent.
C5_Witness ==
    /\ pc["c1"] = "copy_out"
    /\ frame["c1"].count = 2
    /\ Len(sys.nodes) = 4
    /\ sys.nodes[2].kind = "bridge"

\* The block device's disk, its part0 and the disk's device are kernel
\* objects.
DiskIsSound ==
    /\ ~BelowKernelRange(sys.bdevs[1].bd_disk)
    /\ ~BelowKernelRange(sys.disk.part0)
    /\ ~BelowKernelRange(sys.nodes[1].addr)

\* C6: when the device resolves and the sector range is computed but the
\* ancestry holds no node of the target class, the request succeeds:
\* result code 0 and count 0, never an error.
C6_NoControllerIsSuccess ==
    \A c \in callers :
        (Finished(c) /\ Did(c, "range") /\ Did(c, "setup") /\ DiskIsSound
            /\ args[c].arg = "rw"
            /\ \A n \in DOMAIN sys.nodes :
                   ~(sys.nodes[n].is_pci /\ sys.nodes[n].class \div 256 = 264))
        => /\ frame[c].ret = 0
           /\ ureq[c].pcie_count = 0
           /\ Did(c, "walked")

\* Scenario C: a block-special file whose disk has no ancestor at all.
C6_Witness ==
    /\ Finished("c1")
    /\ S_ISBLK(TheInode.i_mode)
    /\ Len(sys.nodes) = 1
    /\ Did("c1", "walked")
    /\ frame["c1"].ret = 0

\* The regular file's filesystem is pseudo (by name, or by having no block
\* device and a name in none of the lists) or network (by name).
OnPseudoOrNetwork ==
    /\ S_ISREG(TheInode.i_mode)
    /\ TheInode.i_sb # NULL
    /\ \/ TheSb.s_type \in KnownPseudoFilesystems
       \/ TheSb.s_type \in KnownNetworkFilesystems
       \/ /\ TheSb.s_type \notin KnownRealFilesystems
          /\ TheSb.s_bdev = NULL

\* C7: a regular file on a pseudo or network filesystem fails with
\* ENOTSUPP: no sector range is computed, the walk never runs and no
\* controller is reported.
C7_PseudoAndNetworkUnsupported ==
    \A c \in callers :
        (Finished(c) /\ Did(c, "resolve") /\ OnPseudoOrNetwork)
        => /\ frame[c].ret = -ENOTSUPP
           /\ ~Did(c, "range")
           /\ ~Did(c, "setup")
           /\ ~Did(c, "walk")
           /\ ureq[c].pcie_count = 0
           /\ ureq[c].pcie_devices = <<>>

\* Scenario B: a request on a file of proc has ended.
C7_Witness ==
    /\ Finished("c1")
    /\ Did("c1", "resolve")
    /\ S_ISREG(TheInode.i_mode)
    /\ TheInode.i_sb # NULL
    /\ TheSb.s_type = "proc"

\* C8: a regular file whose filesystem type is btrfs, ext4, ext3, ext2 or
\* xfs is local with or without a block device on the superblock: without
\* one the request fails with ENODEV, not ENOTSUPP; with one it goes on to
\* the sector range.
C8_LocalNamesStayLocal ==
    \A c \in callers :
        (Finished(c) /\ Did(c, "resolve") /\ S_ISREG(TheInode.i_mode)
            /\ TheInode.i_sb # NULL
            /\ TheSb.s_type \in {"btrfs", "ext4", "ext3", "ext2", "xfs"})
        => IF TheSb.s_bdev = NULL
           THEN frame[c].ret = -ENODEV /\ ~Did(c, "range")
           ELSE frame[c].ret # -ENOTSUPP /\ Did(c, "range")

\* The btrfs test: a file of a btrfs without s_bdev was refused.
C8_Witness ==
    /\ Finished("c1")
    /\ Did("c1", "resolve")
    /\ S_ISREG(TheInode.i_mode)
    /\ TheInode.i_sb # NULL
    /\ TheSb.s_type = "btrfs"
    /\ TheSb.s_bdev = NULL
    /\ frame["c1"].ret = -ENODEV

\* The five classifications of a handle, each stated on its own.  A type
\* name in none of the lists, a missing one included, is unrecognized.
NameRecognized ==
    TheSb.s_type \in KnownRealFilesystems \cup KnownPseudoFilesystems
                         \cup KnownNetworkFilesystems

IsBlockSpecial == S_ISBLK(TheInode.i_mode)

IsRegularOnLocal ==
    /\ S_ISREG(TheInode.i_mode)
    /\ TheInode.i_sb # NULL
    /\ \/ TheSb.s_type \in KnownRealFilesystems
       \/ ~NameRecognized /\ TheSb.s_bdev # NULL

IsRegularOnPseudo ==
    /\ S_ISREG(TheInode.i_mode)
    /\ TheInode.i_sb # NULL
    /\ \/ TheSb.s_type \in KnownPseudoFilesystems
       \/ ~NameRecognized /\ TheSb.s_bdev = NULL

IsRegularOnNetwork ==
    /\ S_ISREG(TheInode.i_mode)
    /\ TheInode.i_sb # NULL
    /\ TheSb.s_type \in KnownNetworkFilesystems

IsUnresolvable ==
    \/ ~S_ISBLK(TheInode.i_mode) /\ ~S_ISREG(TheInode.i_mode)
    \/ S_ISREG(TheInode.i_mode) /\ TheInode.i_sb = NULL

Classifications ==
    {k \in {"BlockSpecial", "RegularOnLocal", "RegularOnPseudo",
            "RegularOnNetwork", "Unresolvable"} :
        CASE k = "BlockSpecial" -> IsBlockSpecial
          [] k = "RegularOnLocal" -> IsRegularOnLocal
          [] k = "RegularOnPseudo" -> IsRegularOnPseudo
          [] k = "RegularOnNetwork" -> IsRegularOnNetwork
          [] OTHER -> IsUnresolvable}

\* The request was marshalled: the command is the module's and the
\* caller's record can be read and written.
Marshalled(c) == args[c].cmd = GoodCmd /\ args[c].arg = "rw"

\* C9: classification is total and single-valued, and the request acts on
\* it: every handle, of any object kind, filesystem type name, with or
\* without a backing device, superblock or type name, is of exactly one of
\* the five classifications, and the request takes the route of that one;
\* and every outcome of a marshalled request is success or one code of the
\* taxonomy (EBADF, ENODEV, ENOTSUPP, EINVAL).
C9_ClassificationTotal ==
    \A c \in callers :
        /\ (Finished(c) /\ Did(c, "resolve"))
           => /\ Cardinality(Classifications) = 1
              /\ IsBlockSpecial
                 => IF TheInode.i_bdev = NULL
                    THEN frame[c].ret = -ENODEV /\ ~Did(c, "range")
                    ELSE Did(c, "range")
              /\ IsRegularOnLocal
                 => IF TheSb.s_bdev = NULL
                    THEN frame[c].ret = -ENODEV /\ ~Did(c, "range")
                    ELSE Did(c, "range")
              /\ (IsRegularOnPseudo \/ IsRegularOnNetwork)
                 => frame[c].ret = -ENOTSUPP /\ ~Did(c, "range")
              /\ IsUnresolvable
                 => frame[c].ret = -ENODEV /\ ~Did(c, "range")
        /\ (Finished(c) /\ Marshalled(c))
           => frame[c].ret \in {0, -EBADF, -ENODEV, -ENOTSUPP, -EINVAL}

\* A request on a directory of a pseudo filesystem has ended as
\* unresolvable.
C9_Witness ==
    /\ Finished("c1")
    /\ Did("c1", "resolve")
    /\ TheInode.i_mode = "S_IFDIR"
    /\ TheInode.i_sb # NULL
    /\ TheSb.s_type = "proc"
    /\ frame["c1"].ret = -ENODEV

\* C10: a request repeated with the same handle, offset and length on an
\* unchanged system returns the same record as the first time: the same
\* result code, count, descriptors, order and ranges.
C10_Idempotent ==
    \A c \in callers :
        \A i, j \in DOMAIN results[c] : results[c][i] = results[c][j]

\* A request that found a controller was made twice.
C10_Witness ==
    /\ Len(results["c1"]) = 2
    /\ results["c1"][1].ret = 0
    /\ results["c1"][1].req.pcie_count >= 1
    /\ results["c1"][2].req.pcie_count >= 1

\* C11: a request whose offset is negative or whose length is zero is
\* rejected before classification with an argument-validation failure, and
\* no sector range, descriptor or count is produced for it.  The request
\* is one that reaches the handler of the ioctl, marshalled.
C11_InvalidRangeRejected ==
    \A c \in callers :
        (Finished(c) /\ Marshalled(c) /\ ~ValidRange(args[c]))
        => /\ frame[c].ret < 0
           /\ ~Did(c, "resolve")
           /\ ~Did(c, "range")
           /\ ~Did(c, "walk")
           /\ ureq[c].pcie_count = 0
           /\ ureq[c].pcie_devices = <<>>

\* The descriptor of the request does not name the open file.
BadFd(c) == args[c].fd < 0 \/ args[c].fd \notin sys.fds

\* C12: a handle identifier that is negative or names no open file makes
\* the request fail with EBADF before any classification, range or walk,
\* and no reference to a file is taken or released for it.
C12_BadHandleIsEBADF ==
    \A c \in callers :
        /\ (Finished(c) /\ Marshalled(c) /\ BadFd(c))
           => /\ frame[c].ret = -EBADF
              /\ frame[c].target_file = NULL
              /\ trace[c] = <<"entry", "fget">>
              /\ ureq[c].pcie_count = 0
              /\ ureq[c].pcie_devices = <<>>
        /\ (callers = {c} /\ BadFd(c)) => f_count = 1

\* A request with descriptor -1 has ended.
C12_Witness ==
    /\ Finished("c1")
    /\ Marshalled("c1")
    /\ args["c1"].fd = -1
    /\ frame["c1"].ret = -EBADF

\* All the controllers the walk can reach, nearest first.
AllControllers == SelectSeq(Reachable(1), IsController)

\* C13: more than 16 matching controllers in the ancestry is no error: the
\* request succeeds with count = 16 and the 16 matches nearest to the disk.
C13_TruncatedAtCapacity ==
    \A c \in callers :
        (Finished(c) /\ Marshalled(c) /\ Did(c, "walk")
            /\ Len(AllControllers) > 16)
        => /\ frame[c].ret = 0
           /\ ureq[c].pcie_count = 16
           /\ DOMAIN ureq[c].pcie_devices = 0..15
           /\ \A j \in 1..16 :
                  DescribesNode(ureq[c].pcie_devices[j - 1],
                                AllControllers[j])

\* A chain of 18 controllers has been walked and the request has ended.
C13_Witness ==
    /\ Finished("c1")
    /\ Did("c1", "walked")
    /\ Len(AllControllers) = 18
    /\ ureq["c1"].pcie_count = 16

\* The failure kind of the taxonomy that a live handle on the given inode
\* falls under, "None" when it resolves and its range can be computed.
FailureKindOf(sbs, inode) ==
    IF S_ISBLK(inode.i_mode) THEN
        IF inode.i_bdev = NULL THEN "DeviceNotBound" ELSE "None"
    ELSE IF ~S_ISREG(inode.i_mode) \/ inode.i_sb = NULL THEN "Unresolvable"
    ELSE LET sb == sbs[inode.i_sb]
             known == KnownRealFilesystems \cup KnownPseudoFilesystems
                          \cup KnownNetworkFilesystems
         IN  IF sb.s_type \in KnownPseudoFilesystems
                    \cup KnownNetworkFilesystems
                \/ (sb.s_type \notin known /\ sb.s_bdev = NULL)
             THEN "UnsupportedFilesystem"
             ELSE IF sb.s_bdev = NULL THEN "NoBackingDevice"
             ELSE IF sb.s_blocksize_bits < 9 THEN "InvalidBlockSize"
             ELSE "None"

\* The response code the components give for a live handle on the inode:
\* that of device resolution, else that of the range computation.
ResponseCodeOf(sbs, inode) ==
    IF get_block_device_from_file(sbs, inode) = NULL
    THEN NoBdevError(sbs, inode)
    ELSE calculate_sector_range(sbs, inode, U64Zero, U64(1024),
             [ret |-> 0, sector_start |-> U64Zero,
              sector_end |-> U64Zero]).ret

\* C14: the failure kinds map one to one to response codes.  When a
\* request fails with a kind of the taxonomy, its code is the one its
\* component gave, and no handle of a different failure kind gets that
\* code; EBADF, the code of InvalidHandle, goes to no failure of a live
\* handle.
C14_FailureKindsOneToOne ==
    \A c \in callers :
        (Finished(c) /\ Marshalled(c) /\ frame[c].ret < 0
            /\ ~Did(c, "setup"))
        => IF BadFd(c)
           THEN /\ frame[c].ret = -EBADF
                /\ \A f \in AllFiles \cup CoreFiles :
                       ResponseCodeOf(<<f.sb>>, f.inode) # -EBADF
           ELSE /\ FailureKindOf(sys.sbs, TheInode) # "None"
                /\ frame[c].ret = ResponseCodeOf(sys.sbs, TheInode)
                /\ \A f \in AllFiles \cup CoreFiles :
                       FailureKindOf(<<f.sb>>, f.inode)
                           \notin {"None", FailureKindOf(sys.sbs, TheInode)}
                       => ResponseCodeOf(<<f.sb>>, f.inode) # frame[c].ret

\* C15: a block-special handle with no block device bound to its inode
\* makes device resolution fail (DeviceNotBound, answered with ENODEV): no
\* sector range is computed or reported and no walk runs.
C15_UnboundBlockSpecialFails ==
    \A c \in callers :
        (Finished(c) /\ Did(c, "resolve") /\ S_ISBLK(TheInode.i_mode)
            /\ TheInode.i_bdev = NULL)
        => /\ frame[c].ret = -ENODEV
           /\ frame[c].bdev = NULL
           /\ trace[c] = <<"entry", "fget", "resolve", "reject", "fput">>
           /\ ureq[c].pcie_count = 0
           /\ ureq[c].pcie_devices = <<>>

\* A request on an unbound block-special file whose node lies on a
\* filesystem with a block device has ended.
C15_Witness ==
    /\ Finished("c1")
    /\ S_ISBLK(TheInode.i_mode)
    /\ TheInode.i_bdev = NULL
    /\ TheInode.i_sb # NULL
    /\ TheSb.s_type = "ext4"
    /\ TheSb.s_bdev # NULL
    /\ frame["c1"].ret = -ENODEV

\* The record a caller has after a request with arguments a that runs with
\* no other request in flight, stated from the file, the device and the
\* ancestry alone.
AloneResult(a) ==
    LET sub == [ZeroRequest EXCEPT !.fd = a.fd, !.offset = a.offset,
                                   !.length = a.length]
        bdev == get_block_device_from_file(sys.sbs, TheInode)
        r == calculate_sector_range(sys.sbs, TheInode, a.offset, a.length,
                 [ret |-> 0, sector_start |-> U64Zero,
                  sector_end |-> U64Zero])
        found == ExpectedControllers
        fail(e) == [ret |-> e, req |-> sub]
    IN  IF a.cmd # GoodCmd THEN fail(-ENOTTY)
        ELSE IF a.arg = "unmapped" THEN fail(-EFAULT)
        ELSE IF get_file_from_fd(a.fd) = NULL THEN fail(-EBADF)
        ELSE IF bdev = NULL THEN fail(NoBdevError(sys.sbs, TheInode))
        ELSE IF r.ret < 0 THEN fail(r.ret)
        ELSE IF DiskToDev(bdev).ret < 0 THEN fail(DiskToDev(bdev).ret)
        ELSE LET out == copy_to_user(a.arg, sub,
                            [sub EXCEPT
                                !.pcie_count = Len(found),
                                !.pcie_devices =
                                    [i \in 0..(Len(found) - 1) |->
                                        Descriptor(sys.nodes[found[i + 1]],
                                            sub, r.sector_start,
                                            r.sector_end)]])
             IN  [ret |-> IF out.left THEN -EFAULT ELSE 0, req |-> out.to]

\* C16: with the requests of independent callers interleaved in any order
\* on an unchanged system, every request returns exactly the record it
\* returns when run alone: nothing of another request's classification,
\* ranges, descriptors or count shows in it.
C16_NoInterference ==
    \A c \in callers :
        /\ \A k \in DOMAIN results[c] : results[c][k] = AloneResult(args[c])
        /\ Finished(c)
           => [ret |-> frame[c].ret, req |-> ureq[c]] = AloneResult(args[c])

\* Two requests for different byte ranges are in the middle of their walks
\* at the same time, each with a descriptor written.
C16_Witness ==
    /\ callers = CallerIds
    /\ pc["c1"] = "walk" /\ pc["c2"] = "walk"
    /\ frame["c1"].count = 1 /\ frame["c2"].count = 1
    /\ args["c1"].offset # args["c2"].offset

\* The walk of c's request is under way or just over.
Walking(c) == pc[c] \in {"walk", "walk_end", "copy_out"}

\* Entry d carries the given sector range and the byte range of req, its
\* last byte offset + length - 1 taken in 64 bits.
CarriesRanges(d, req, start, end) ==
    /\ d.sector_start = start
    /\ d.sector_end = end
    /\ d.file_offset_start = req.offset
    /\ d.file_offset_end = U64SubInt(U64Add(req.offset, req.length), 1)

\* C17: every descriptor of a request carries the same sector range, the
\* one computed before the walk started, and the same byte range
\* [offset, offset + length - 1]: each of them when several controllers are
\* found, the range neither recomputed nor split during the walk.
C17_SameRangeOnEveryDescriptor ==
    \A c \in callers :
        /\ Walking(c)
           => LET r == calculate_sector_range(sys.sbs, TheInode,
                           frame[c].req.offset, frame[c].req.length,
                           [ret |-> 0, sector_start |-> U64Zero,
                            sector_end |-> U64Zero])
              IN  /\ frame[c].sector_start = r.sector_start
                  /\ frame[c].sector_end = r.sector_end
                  /\ \A i \in DOMAIN frame[c].req.pcie_devices :
                         CarriesRanges(frame[c].req.pcie_devices[i],
                                       frame[c].req, r.sector_start,
                                       r.sector_end)
        /\ \A k \in DOMAIN results[c] :
               results[c][k].ret = 0
               => \A i \in 0..(results[c][k].req.pcie_count - 1) :
                      CarriesRanges(
                          DeviceAt(results[c][k].req.pcie_devices, i),
                          results[c][k].req,
                          DeviceAt(results[c][k].req.pcie_devices,
                                   0).sector_start,
                          DeviceAt(results[c][k].req.pcie_devices,
                                   0).sector_end)

\* Two controllers were found for a byte range of a regular file on
\* 4096-byte blocks.
C17_Witness ==
    /\ pc["c1"] = "copy_out"
    /\ S_ISREG(TheInode.i_mode)
    /\ frame["c1"].count >= 2
    /\ frame["c1"].sector_end = U64(7)

\* Node m is a proper ancestor of node n.
RECURSIVE IsAncestor(_, _)
IsAncestor(m, n) ==
    /\ sys.nodes[n].parent # NULL
    /\ \/ sys.nodes[n].parent = m
       \/ IsAncestor(m, sys.nodes[n].parent)

\* The entries 0..count-1 are all written, each from a node, and each
\* one's node is a proper descendant of the node of every later one.
InWalkOrder(devices, count) ==
    /\ DOMAIN devices = 0..(count - 1)
    /\ \A i \in DOMAIN devices :
           \E n \in DOMAIN sys.nodes : DescribesNode(devices[i], n)
    /\ \A i, j \in DOMAIN devices :
           i < j =>
               \A n, m \in DOMAIN sys.nodes :
                   (DescribesNode(devices[i], n)
                        /\ DescribesNode(devices[j], m))
                   => IsAncestor(m, n)

\* C18: descriptors appear in the order of the walk: for indices i < j the
\* node of descriptor i is a strict descendant of the node of descriptor j,
\* nearer to the disk, and the indices 0..count-1 are filled without a gap.
C18_NearestFirst ==
    \A c \in callers :
        /\ Walking(c)
           => InWalkOrder(frame[c].req.pcie_devices, frame[c].count)
        /\ \A k \in DOMAIN results[c] :
               results[c][k].ret = 0
               => InWalkOrder(results[c][k].req.pcie_devices,
                              results[c][k].req.pcie_count)

\* Two controllers with a bridge between them were handed back.
C18_Witness ==
    /\ Len(results["c1"]) >= 1
    /\ results["c1"][1].ret = 0
    /\ results["c1"][1].req.pcie_count = 2
    /\ Len(sys.nodes) = 4
    /\ sys.nodes[3].kind = "bridge"

\* Caller c's request holds the reference it took with fget.
Holding(c) ==
    /\ pc[c] \in {"get_bdev", "no_bdev", "find", "disk", "walk", "walk_end",
                  "copy_out", "out_file"}
    /\ frame[c].target_file # NULL

\* How often step occurs in the trace.
Times(c, step) == Cardinality({i \in DOMAIN trace[c] : trace[c][i] = step})

\* C19: the file reference taken from the handle at entry is released
\* exactly once on every exit path (success, pseudo or network rejection,
\* no backing device, range failure, walk-setup failure, failed copy out),
\* and never when it was not acquired: the file's count is one more for
\* each request between its fget and its fput, and back when it has ended.
C19_ReferenceReleasedOnce ==
    /\ f_count = 1 + Cardinality({c \in callers : Holding(c)})
    /\ \A c \in callers :
           /\ Times(c, "fput") <= 1
           /\ pc[c] \in {"get_bdev", "no_bdev", "find", "disk", "walk",
                         "walk_end", "copy_out", "out_file"}
              => frame[c].target_file # NULL
           /\ Finished(c)
              => /\ ~Holding(c)
                 /\ Did(c, "fput") <=> frame[c].target_file # NULL
                 /\ frame[c].target_file # NULL
                    <=> (Did(c, "fget") /\ ~BadFd(c))

\* The result could not be copied out and the request has ended.
C19_Witness ==
    /\ Finished("c1")
    /\ Did("c1", "copy_out")
    /\ frame["c1"].ret = -EFAULT
    /\ Did("c1", "fput")
    /\ f_count = 1

\* The steps of a request on a live handle that fails before the walk:
\* its failing stage is device resolution, or the range computation when
\* the block size is too small; only the release of the file follows.
ErrorPath ==
    <<"entry", "fget", "resolve",
      IF FailureKindOf(sys.sbs, TheInode) = "InvalidBlockSize"
      THEN "range" ELSE "reject", "fput">>

\* C20: the walk runs only after device resolution and range computation
\* have both succeeded; when classification, device resolution or range
\* computation fails the request goes to Error: no walk step is taken, no
\* descriptor is written and no later stage runs.
C20_WalkOnlyAfterSuccess ==
    \A c \in callers :
        /\ (Did(c, "walk") \/ Walking(c))
           => /\ FailureKindOf(sys.sbs, TheInode) = "None"
              /\ frame[c].bdev # NULL
              /\ frame[c].bdev = get_block_device_from_file(sys.sbs, TheInode)
              /\ SubSeq(trace[c], 1, 5)
                     = <<"entry", "fget", "resolve", "range", "setup">>
        /\ (Did(c, "resolve") /\ FailureKindOf(sys.sbs, TheInode) # "None")
           => /\ Len(trace[c]) <= 5
              /\ \A i \in DOMAIN trace[c] : trace[c][i] = ErrorPath[i]
              /\ frame[c].req.pcie_devices = <<>>
              /\ ureq[c].pcie_devices = <<>>
              /\ ureq[c].pcie_count = 0
              /\ Len(trace[c]) >= 4 => frame[c].ret < 0

\* A request on a file whose filesystem has 256-byte blocks has ended
\* after the range computation failed.
C20_Witness ==
    /\ Finished("c1")
    /\ Did("c1", "range")
    /\ frame["c1"].ret = -EINVAL
    /\ FailureKindOf(sys.sbs, TheInode) = "InvalidBlockSize"

\* C21: every request terminates, returning to its caller, for every
\* finite acyclic ancestry chain: whatever its depth, whatever mix of
\* non-PCI, non-matching PCI, bus-less PCI and matching nodes it holds, and
\* however many of them match.
C21_EveryRequestReturns ==
    \A c \in CallerIds : (pc[c] = "ioctl") ~> (pc[c] = "user")

\* A request has returned whose walk passed a bus-less PCI node, a bridge
\* and a non-PCI node.
C21_Witness ==
    /\ Len(results["c1"]) >= 1
    /\ Len(sys.nodes) = 4
    /\ sys.nodes[2].kind = "nobus"
    /\ sys.nodes[3].kind = "bridge"
    /\ sys.nodes[4].kind = "virt"
    /\ pc["c1"] = "user"

\* C22: the walk is bounded by a cap on its iterations, so that it ends,
\* and the request returns, even on a parent chain that is cyclic and
\* holds no matching controller.
C22_WalkEndsOnCycle ==
    \A c \in CallerIds : (pc[c] = "walk") ~> (pc[c] = "user")

\* The walk meets a node whose address is below the kernel range: the
\* disk's own device, or the parent of the last node it can reach.
MeetsBadNode ==
    \/ BelowKernelRange(sys.nodes[1].addr)
    \/ /\ Reachable(1) # <<>>
       /\ sys.nodes[Reachable(1)[Len(Reachable(1))]].parent # NULL

\* As MeetsBadNode, the disk's own device being sound.
MeetsBadAncestor == MeetsBadNode /\ ~BelowKernelRange(sys.nodes[1].addr)

\* C23: when a node met by the walk, the starting node of the disk or any
\* ancestor, has an address outside the kernel range, the walk stops as if
\* the chain had ended there: the request is not failed and returns, with
\* success, the descriptors collected so far.
C23_BadNodeEndsWalk ==
    \A c \in callers :
        (Finished(c) /\ Did(c, "range") /\ Did(c, "setup")
            /\ ~BelowKernelRange(sys.bdevs[1].bd_disk)
            /\ ~BelowKernelRange(sys.disk.part0)
            /\ args[c].arg = "rw"
            /\ MeetsBadNode)
        => /\ frame[c].ret = 0
           /\ Did(c, "walked")
           /\ ureq[c].pcie_count = Len(ExpectedControllers)

\* The same of bad ancestors only: the part of C23 the walk does as said.
BadAncestorEndsWalk ==
    \A c \in callers :
        (Finished(c) /\ Did(c, "range") /\ Did(c, "setup")
            /\ ~BelowKernelRange(sys.bdevs[1].bd_disk)
            /\ ~BelowKernelRange(sys.disk.part0)
            /\ args[c].arg = "rw"
            /\ MeetsBadAncestor)
        => /\ frame[c].ret = 0
           /\ Did(c, "walked")
           /\ ureq[c].pcie_count = Len(ExpectedControllers)

\* C25: a regular file whose filesystem type name is in the network list
\* is classified as on a network filesystem by its name, with or without a
\* block device on the superblock: the test for a missing block device is
\* not what decides, the pseudo test does not take it, the network test
\* does, and the request fails with ENOTSUPP.
C25_NetworkByName ==
    \A c \in callers :
        (Finished(c) /\ Did(c, "resolve") /\ S_ISREG(TheInode.i_mode)
            /\ TheInode.i_sb # NULL
            /\ TheSb.s_type \in KnownNetworkFilesystems)
        => /\ ~is_pseudo_filesystem(sys.sbs, TheInode.i_sb)
           /\ is_network_filesystem(sys.sbs, TheInode.i_sb)
           /\ frame[c].ret = -ENOTSUPP

\* The part of C25 that shows to the caller: the result code.
NetworkIsUnsupported ==
    \A c \in callers :
        (Finished(c) /\ Did(c, "resolve") /\ S_ISREG(TheInode.i_mode)
            /\ TheInode.i_sb # NULL
            /\ TheSb.s_type \in KnownNetworkFilesystems)
        => /\ frame[c].ret = -ENOTSUPP
           /\ TheSb.s_bdev # NULL
              => ~is_pseudo_filesystem(sys.sbs, TheInode.i_sb)

\* C26: for a regular file whose filesystem type name is in none of the
\* lists, or is missing, the block device of the superblock alone decides:
\* without one the filesystem is pseudo and the request fails with
\* ENOTSUPP; with one the file is local and is resolved through that block
\* device.
C26_UnknownNameFallsBack ==
    \A c \in callers :
        (Finished(c) /\ Did(c, "resolve") /\ S_ISREG(TheInode.i_mode)
            /\ TheInode.i_sb # NULL /\ ~NameRecognized)
        => IF TheSb.s_bdev = NULL
           THEN /\ is_pseudo_filesystem(sys.sbs, TheInode.i_sb)
                /\ frame[c].bdev = NULL
                /\ frame[c].ret = -ENOTSUPP
                /\ ~Did(c, "range")
           ELSE /\ ~is_pseudo_filesystem(sys.sbs, TheInode.i_sb)
                /\ ~is_network_filesystem(sys.sbs, TheInode.i_sb)
                /\ frame[c].bdev = TheSb.s_bdev
                /\ Did(c, "range")

\* A request has ended on a regular file of a superblock that names no
\* type and has no block device.
C26_Witness ==
    /\ Finished("c1")
    /\ Did("c1", "resolve")
    /\ S_ISREG(TheInode.i_mode)
    /\ TheInode.i_sb # NULL
    /\ TheSb.s_type = NO_TYPE
    /\ TheSb.s_bdev = NULL
    /\ frame["c1"].ret = -ENOTSUPP

\* The kinds of object that are neither block-special nor regular files.
OtherObjects == {"S_IFDIR", "S_IFLNK", "S_IFCHR", "S_IFIFO", "S_IFSOCK"}

\* C27: an object that is neither block-special nor a regular file (a
\* directory, a symbolic link, a character device, a fifo, a socket) is
\* unresolvable on whatever filesystem it lies: its filesystem is not
\* looked at, no block device is found, the request fails with ENODEV, and
\* no sector range is computed and no walk made.
C27_OtherObjectsUnresolvable ==
    \A c \in callers :
        (Finished(c) /\ Did(c, "resolve")
            /\ TheInode.i_mode \in OtherObjects)
        => /\ frame[c].bdev = NULL
           /\ frame[c].ret = -ENODEV
           /\ trace[c] = <<"entry", "fget", "resolve", "reject", "fput">>
           /\ ureq[c].pcie_count = 0
           /\ \A f \in AllFiles :
                  f.inode.i_mode = TheInode.i_mode
                  => /\ get_block_device_from_file(<<f.sb>>, f.inode) = NULL
                     /\ NoBdevError(<<f.sb>>, f.inode) = -ENODEV

\* A request has ended on a fifo of an ext4 filesystem that has a block
\* device.
C27_Witness ==
    /\ Finished("c1")
    /\ TheInode.i_mode = "S_IFIFO"
    /\ TheInode.i_sb # NULL
    /\ TheSb.s_type = "ext4"
    /\ TheSb.s_bdev # NULL
    /\ frame["c1"].ret = -ENODEV

\* C28: ENOTSUPP is the code of regular files on pseudo or network
\* filesystems only: no request on a block-special file (one whose node
\* lies on a pseudo filesystem included), on an object that is not a
\* regular file, or on a regular file of a local filesystem ends with it.
C28_UnsupportedOnlyForPseudoOrNetwork ==
    \A c \in callers :
        (Finished(c) /\ frame[c].ret = -ENOTSUPP)
        => /\ Did(c, "reject")
           /\ TheInode.i_mode = "S_IFREG"
           /\ IsRegularOnPseudo \/ IsRegularOnNetwork
           /\ ~IsRegularOnLocal

\* A request on an unbound block-special file whose node lies on devtmpfs
\* has ended, with ENODEV.
C28_Witness ==
    /\ Finished("c1")
    /\ TheInode.i_mode = "S_IFBLK"
    /\ TheInode.i_bdev = NULL
    /\ TheInode.i_sb # NULL
    /\ TheSb.s_type = "devtmpfs"
    /\ TheSb.s_bdev = NULL
    /\ frame["c1"].ret = -ENODEV

\* The record as the caller submitted it.
Submitted(c) ==
    [ZeroRequest EXCEPT !.fd = args[c].fd, !.offset = args[c].offset,
                        !.length = args[c].length]

\* C29: a request that ends with an error code, whichever, leaves the
\* caller's record exactly as it was submitted: count, descriptors and
\* fields are written back on success only; and a failure of device
\* resolution, of the range computation or of the walk's setup comes
\* before any descriptor is written to the handler's working copy.
C29_FailureLeavesRecord ==
    \A c \in callers :
        /\ (Finished(c) /\ frame[c].ret < 0) => ureq[c] = Submitted(c)
        /\ (Finished(c) /\ frame[c].ret < 0 /\ Did(c, "resolve")
               /\ ~Did(c, "walk"))
           => frame[c].req = Submitted(c)

\* The same of every failure but that of the copy to the caller.
FailureBeforeCopyLeavesRecord ==
    \A c \in callers :
        /\ (Finished(c) /\ frame[c].ret < 0 /\ ~Did(c, "copy_out"))
           => ureq[c] = Submitted(c)
        /\ (Finished(c) /\ frame[c].ret < 0 /\ Did(c, "resolve")
               /\ ~Did(c, "walk"))
           => frame[c].req = Submitted(c)

\* C24: while the walk is in progress, the removal of a device of the
\* ancestry by another thread never leads the walk to read the fields of a
\* node that has been freed.
C24_NeverReadsFreedNode ==
    \A c \in callers : ~Did(c, "walk_freed")

\* How many of the registration `step` are in force after the calls.
RECURSIVE HeldAfter(_, _)
HeldAfter(calls, step) ==
    IF calls = <<>> THEN 0
    ELSE LET last == calls[Len(calls)]
             before == HeldAfter(SubSeq(calls, 1, Len(calls) - 1), step)
         IN  IF last = step THEN before + 1
             ELSE IF last = ReleaseOf(step) THEN before - 1
             ELSE before

AllInitSteps == {InitSteps[i] : i \in DOMAIN InitSteps}

\* The registrations made, and the releases made, in the order of the calls.
Registered == SelectSeq(mod.calls, LAMBDA x : x \in AllInitSteps)

Released == SelectSeq(mod.calls, LAMBDA x : x \notin AllInitSteps)

\* C30: registration is all or nothing.  When a step of the four of
\* file_to_pcie_init fails, init returns failure with every registration
\* made before it released, in the reverse of the order they were made;
\* after a load that succeeded all four are in force, and the unload
\* releases each of the four exactly once, none twice and none before it
\* was made.
C30_RegistrationAllOrNothing ==
    /\ \A k \in 0..Len(mod.calls) :
           \A step \in AllInitSteps :
               HeldAfter(SubSeq(mod.calls, 1, k), step) \in {0, 1}
    /\ mod.state = "loaded"
       => /\ mod.ret = 0
          /\ mod.calls = InitSteps
    /\ mod.state = "absent"
       => /\ \A step \in AllInitSteps : HeldAfter(mod.calls, step) = 0
          /\ Len(Released) = Len(Registered)
          /\ \A i \in 1..Len(Released) :
                 Released[i] = ReleaseOf(Registered[Len(Registered) + 1 - i])
          /\ mod.ret < 0 => Len(Registered) < Len(InitSteps)
          /\ mod.ret < 0
             => Registered = SubSeq(InitSteps, 1, Len(Registered))

\* A load has failed at device_create, after three registrations.
C30_Witness ==
    /\ mod.state = "absent"
    /\ mod.ret < 0
    /\ Len(Registered) = 3

=============================================================================
